---- MODULE Spec2Model ----
(***************************************************************************)
(* next-boiler: the client auth state (context/UserContext.tsx: reducer    *)
(* and provider operations) and the token service (lib/auth.ts: JWT        *)
(* issuance and verification, auth cookies).                               *)
(*                                                                         *)
(* The specifications share the module's variables:                        *)
(*   Spec / FairSpec  the UserProvider: operations dispatch reducer        *)
(*                    actions into React's update queue, a render reduces  *)
(*                    the queue into the committed state;                  *)
(*   ReducerSpec      authReducer applied to arbitrary actions;            *)
(*   TokenSpec        module load, the clock, generate/verify calls;       *)
(*   CookieSpec       the request's cookie store and the cookie helpers.   *)
(***************************************************************************)
EXTENDS Integers, Sequences, FiniteSets, TLC

VARIABLES
    state,      \* UserProvider: the committed AuthState (useReducer's state)
    queue,      \* UserProvider: actions dispatched and not yet reduced
    lastCall,   \* the last state-changing call (provider operation, cookie write), with its arguments
    env,        \* process.env: the variables lib/auth.ts and lib/constants.ts read
    mod,        \* lib/auth.ts module: load status and the constants bound at load
    now,        \* the clock, in seconds (Math.floor(Date.now() / 1000))
    ticks,      \* number of clock advances so far
    pool,       \* the token string in hand: how it was made, from which payload, when
    last,       \* the call made at the present instant, if any: op, argument, outcome
    jar         \* the request's cookie store: cookie name -> cookie

vars == <<state, queue, lastCall, env, mod, now, ticks, pool, last, jar>>

------------------------------------------------------------------------------
(* JavaScript values *)

NULL      == [t |-> "null"]
Undefined == [t |-> "undefined"]
Str(s)    == [t |-> "string", v |-> s]
Num(n)    == [t |-> "number", v |-> n]
Obj(f)    == [t |-> "object", v |-> f]

EmptyObj  == Obj([k \in {} |-> NULL])

\* !x of JavaScript, for the values the model holds
Falsy(x) == x = NULL \/ x = Undefined \/ x = Str("")

\* { ...a, ...b } on objects
Spread(a, b) ==
    Obj([k \in DOMAIN a.v \cup DOMAIN b.v |->
            IF k \in DOMAIN b.v THEN b.v[k] ELSE a.v[k]])

\* all objects whose keys are among keys and whose values are among vals
Objects(keys, vals) ==
    UNION { { Obj(f) : f \in [ks -> vals] } : ks \in SUBSET keys }

------------------------------------------------------------------------------
(* Bounds *)

MaxQueue == 4

UserFields == {"name"}
UserValues == {Str("ann"), Str("bob")}
Emails     == {"a@b.com", "c@d.com"}
Passwords  == {"x", "y"}

PartialUsers == Objects(UserFields, UserValues)

------------------------------------------------------------------------------
(* context/UserContext.tsx *)

initialState ==
    [user |-> NULL, isLoading |-> FALSE, isAuthenticated |-> FALSE, token |-> NULL]

SetLoading(b)  == [type |-> "SET_LOADING", payload |-> b]
SetUser(u)     == [type |-> "SET_USER", payload |-> u]
SetToken(t)    == [type |-> "SET_TOKEN", payload |-> t]
UpdateUser(p)  == [type |-> "UPDATE_USER", payload |-> p]
Logout         == [type |-> "LOGOUT"]
ClearAuth      == [type |-> "CLEAR_AUTH"]

\* authReducer with a LOGOUT / CLEAR_AUTH case that clears the user and keeps the token
authReducer_logoutKeepsToken(s, action) ==
    CASE action.type = "SET_LOADING" ->
            [s EXCEPT !.isLoading = action.payload]
      [] action.type = "SET_USER" ->
            [s EXCEPT !.user = action.payload,
                      !.isAuthenticated = TRUE,
                      !.isLoading = FALSE]
      [] action.type = "SET_TOKEN" ->
            [s EXCEPT !.token = action.payload]
      [] action.type = "UPDATE_USER" ->
            [s EXCEPT !.user = IF ~Falsy(s.user)
                                 THEN Spread(s.user, action.payload)
                                 ELSE NULL]
      [] action.type \in {"LOGOUT", "CLEAR_AUTH"} ->
            [s EXCEPT !.user = NULL, !.isAuthenticated = FALSE, !.isLoading = FALSE]
      [] OTHER -> s

\* authReducer with a SET_USER case that leaves isLoading as it was
authReducer_setUserKeepsLoading(s, action) ==
    CASE action.type = "SET_LOADING" ->
            [s EXCEPT !.isLoading = action.payload]
      [] action.type = "SET_USER" ->
            [s EXCEPT !.user = action.payload,
                      !.isAuthenticated = TRUE]
      [] action.type = "SET_TOKEN" ->
            [s EXCEPT !.token = action.payload]
      [] action.type = "UPDATE_USER" ->
            [s EXCEPT !.user = IF ~Falsy(s.user)
                                 THEN Spread(s.user, action.payload)
                                 ELSE NULL]
      [] action.type \in {"LOGOUT", "CLEAR_AUTH"} ->
            [initialState EXCEPT !.isLoading = FALSE]
      [] OTHER -> s

\* authReducer whose default case resets the state
authReducer_defaultResets(s, action) ==
    CASE action.type = "SET_LOADING" ->
            [s EXCEPT !.isLoading = action.payload]
      [] action.type = "SET_USER" ->
            [s EXCEPT !.user = action.payload,
                      !.isAuthenticated = TRUE,
                      !.isLoading = FALSE]
      [] action.type = "SET_TOKEN" ->
            [s EXCEPT !.token = action.payload]
      [] action.type = "UPDATE_USER" ->
            [s EXCEPT !.user = IF ~Falsy(s.user)
                                 THEN Spread(s.user, action.payload)
                                 ELSE NULL]
      [] action.type \in {"LOGOUT", "CLEAR_AUTH"} ->
            [initialState EXCEPT !.isLoading = FALSE]
      [] OTHER -> [initialState EXCEPT !.isLoading = FALSE]

\* authReducer whose SET_USER case stores the user only
authReducer_setUserKeepsAuth(s, action) ==
    CASE action.type = "SET_LOADING" ->
            [s EXCEPT !.isLoading = action.payload]
      [] action.type = "SET_USER" ->
            [s EXCEPT !.user = action.payload,
                      !.isLoading = FALSE]
      [] action.type = "SET_TOKEN" ->
            [s EXCEPT !.token = action.payload]
      [] action.type = "UPDATE_USER" ->
            [s EXCEPT !.user = IF ~Falsy(s.user)
                                 THEN Spread(s.user, action.payload)
                                 ELSE NULL]
      [] action.type \in {"LOGOUT", "CLEAR_AUTH"} ->
            [initialState EXCEPT !.isLoading = FALSE]
      [] OTHER -> s

\* authReducer whose UPDATE_USER case makes a user of the payload when there is none
authReducer_updateCreatesUser(s, action) ==
    CASE action.type = "SET_LOADING" ->
            [s EXCEPT !.isLoading = action.payload]
      [] action.type = "SET_USER" ->
            [s EXCEPT !.user = action.payload,
                      !.isAuthenticated = TRUE,
                      !.isLoading = FALSE]
      [] action.type = "SET_TOKEN" ->
            [s EXCEPT !.token = action.payload]
      [] action.type = "UPDATE_USER" ->
            [s EXCEPT !.user = IF ~Falsy(s.user)
                                 THEN Spread(s.user, action.payload)
                                 ELSE action.payload]
      [] action.type \in {"LOGOUT", "CLEAR_AUTH"} ->
            [initialState EXCEPT !.isLoading = FALSE]
      [] OTHER -> s

authReducer(s, action) ==
    CASE action.type = "SET_LOADING" ->
            [s EXCEPT !.isLoading = action.payload]
      [] action.type = "SET_USER" ->
            [s EXCEPT !.user = action.payload,
                      !.isAuthenticated = TRUE,
                      !.isLoading = FALSE]
      [] action.type = "SET_TOKEN" ->
            [s EXCEPT !.token = action.payload]
      [] action.type = "UPDATE_USER" ->
            [s EXCEPT !.user = IF ~Falsy(s.user)
                                 THEN Spread(s.user, action.payload)
                                 ELSE NULL]
      [] action.type \in {"LOGOUT", "CLEAR_AUTH"} ->
            [initialState EXCEPT !.isLoading = FALSE]
      [] OTHER -> s

\* useReducer: a render reduces the queued actions, in dispatch order
RECURSIVE Reduce(_, _)
Reduce(s, q) ==
    IF q = <<>> THEN s ELSE Reduce(authReducer(s, Head(q)), Tail(q))

mockUser  == EmptyObj
mockToken == Str("jwt-token")

\* login dispatching the user before the token
loginDispatches_userBeforeToken ==
    <<SetLoading(TRUE), SetUser(mockUser), SetToken(mockToken)>>

\* register dispatching a token as login does
registerDispatches_setsToken ==
    <<SetLoading(TRUE), SetToken(mockToken), SetUser(mockUser)>>

\* the dispatches of one call of each provider operation, in program order
loginDispatches    == <<SetLoading(TRUE), SetToken(mockToken), SetUser(mockUser)>>
registerDispatches == <<SetLoading(TRUE), SetUser(mockUser)>>
logoutDispatches   == <<Logout>>
\* refreshUser with the commented-out SET_USER dispatch enabled
refreshDispatches_dispatchesUser(s) ==
    IF Falsy(s.token) THEN <<>>
    ELSE <<SetLoading(TRUE), SetUser(mockUser), SetLoading(FALSE)>>

\* refreshUser without the closing SET_LOADING dispatch
refreshDispatches_noReset(s) ==
    IF Falsy(s.token) THEN <<>> ELSE <<SetLoading(TRUE)>>

refreshDispatches(s) ==
    IF Falsy(s.token) THEN <<>> ELSE <<SetLoading(TRUE), SetLoading(FALSE)>>

\* dispatch(): the action joins React's update queue
Dispatch(q, dispatches) == q \o dispatches

Room(dispatches) == Len(queue) + Len(dispatches) <= MaxQueue

\* login that also stores the token as a cookie of the document
login_storesCookie ==
    \E email \in Emails, password \in Passwords :
        /\ Room(loginDispatches)
        /\ queue' = Dispatch(queue, loginDispatches)
        /\ lastCall' = [op |-> "login", args |-> <<email, password>>]
        /\ jar' = [k \in DOMAIN jar \cup {"access_token"} |->
                      IF k = "access_token"
                      THEN [value |-> "tokA", options |-> Undefined]
                      ELSE jar[k]]
        /\ UNCHANGED <<state, env, mod, now, ticks, pool, last>>

login ==
    \E email \in Emails, password \in Passwords :
        /\ Room(loginDispatches)
        /\ queue' = Dispatch(queue, loginDispatches)
        /\ lastCall' = [op |-> "login", args |-> <<email, password>>]
        /\ UNCHANGED <<state, env, mod, now, ticks, pool, last, jar>>

\* logout that also drops the auth cookies
logout_clearsCookies ==
    /\ Room(logoutDispatches)
    /\ queue' = Dispatch(queue, logoutDispatches)
    /\ lastCall' = [op |-> "logout", args |-> <<>>]
    /\ jar' = [k \in DOMAIN jar \ {"access_token", "refresh_token"} |-> jar[k]]
    /\ UNCHANGED <<state, env, mod, now, ticks, pool, last>>

logout ==
    /\ Room(logoutDispatches)
    /\ queue' = Dispatch(queue, logoutDispatches)
    /\ lastCall' = [op |-> "logout", args |-> <<>>]
    /\ UNCHANGED <<state, env, mod, now, ticks, pool, last, jar>>

register ==
    \E userData \in PartialUsers :
        /\ Room(registerDispatches)
        /\ queue' = Dispatch(queue, registerDispatches)
        /\ lastCall' = [op |-> "register", args |-> <<userData>>]
        /\ UNCHANGED <<state, env, mod, now, ticks, pool, last, jar>>

updateUser ==
    \E userData \in PartialUsers :
        /\ Room(<<UpdateUser(userData)>>)
        /\ queue' = Dispatch(queue, <<UpdateUser(userData)>>)
        /\ lastCall' = [op |-> "updateUser", args |-> <<userData>>]
        /\ UNCHANGED <<state, env, mod, now, ticks, pool, last, jar>>

\* reads state.token of the render it was created in: the committed state
refreshUser ==
    /\ Room(refreshDispatches(state))
    /\ queue' = Dispatch(queue, refreshDispatches(state))
    /\ lastCall' = [op |-> "refreshUser", args |-> <<>>]
    /\ UNCHANGED <<state, env, mod, now, ticks, pool, last, jar>>

Render ==
    /\ queue # <<>>
    /\ state' = Reduce(state, queue)
    /\ queue' = <<>>
    /\ UNCHANGED <<lastCall, env, mod, now, ticks, pool, last, jar>>

NoCall == [op |-> "none", args |-> <<>>]

EnvNames ==
    {"JWT_SECRET", "JWT_REFRESH_SECRET", "JWT_EXPIRES_IN", "JWT_REFRESH_EXPIRES_IN",
     "NODE_ENV", "npm_package_version"}

noEnv == [k \in EnvNames |-> Undefined]

\* lib/auth.ts and lib/constants.ts before their module bodies have run
unloaded ==
    [status |-> "unloaded",
     JWT_SECRET |-> Undefined,
     JWT_REFRESH_SECRET |-> Undefined,
     ACCESS_TOKEN_EXPIRES_IN |-> Undefined,
     REFRESH_TOKEN_EXPIRES_IN |-> Undefined]

noCookies == [k \in {} |-> Undefined]

\* no token string in hand
noToken == [tok |-> Undefined, by |-> "none", payload |-> Undefined, at |-> 0]

Idle ==
    /\ env = noEnv
    /\ mod = unloaded
    /\ now = 0
    /\ ticks = 0
    /\ pool = noToken
    /\ last = NoCall
    /\ jar = noCookies

Init ==
    /\ state = initialState
    /\ queue = <<>>
    /\ lastCall = NoCall
    /\ Idle

Next ==
    \/ login
    \/ logout
    \/ register
    \/ updateUser
    \/ refreshUser
    \/ Render

Spec == Init /\ [][Next]_vars

\* React processes every scheduled update
FairSpec == Init /\ [][Next]_vars /\ WF_vars(Render)

------------------------------------------------------------------------------
(* The reducer on its own: any action, from any state the reducer produces *)

TokenStrings == {mockToken, Str("t2"), Str("")}

Actions ==
    {SetLoading(b) : b \in BOOLEAN}
        \cup {SetUser(u) : u \in PartialUsers}
        \cup {SetToken(t) : t \in TokenStrings}
        \cup {UpdateUser(u) : u \in PartialUsers}
        \cup {Logout, ClearAuth, [type |-> "UNKNOWN"]}

Reducer ==
    \E action \in Actions :
        /\ state' = authReducer(state, action)
        /\ last' = [op |-> "authReducer", arg |-> <<state, action>>, out |-> state']
        /\ UNCHANGED <<queue, lastCall, env, mod, now, ticks, pool, jar>>

ReducerNext == Reducer

ReducerSpec == Init /\ [][ReducerNext]_vars

------------------------------------------------------------------------------
(* lib/auth.ts: the token service *)

MaxTicks == 4

\* clock advances, chosen so that the default expiries 15m = 900 s and
\* 7d = 604800 s are met from both sides within MaxTicks advances
TickSteps == {1, 898, 603900}

Secrets        == {"s1", "s2"}
ForeignSecrets == {"s1", "s3"}

\* payloads handed to the generate functions; the last one carries its own exp
Payloads == {EmptyObj, Obj([sub |-> Str("u1")]), Obj([sub |-> Str("u1"), exp |-> Num(5)])}

\* JWT_EXPIRES_IN and JWT_REFRESH_EXPIRES_IN as deployed: unset, short, not a timespan
ExpiryConfigs ==
    {<<Undefined, Undefined>>, <<Str("2s"), Str("3s")>>, <<Str("soon"), Str("")>>}

Return(v) == [tag |-> "return", val |-> v]
Throw(e)  == [tag |-> "throw", err |-> e]

\* the ms package on the timespan strings the model configures; -1: not a timespan
Timespan(x) ==
    CASE x = Str("15m") -> 15 * 60
      [] x = Str("7d")  -> 7 * 24 * 60 * 60
      [] x = Str("2s")  -> 2
      [] x = Str("3s")  -> 3
      [] OTHER -> -1

\* HMAC as an ideal MAC: the tag names the key and the signed content
Mac(key, claims) == [key |-> key, msg |-> claims]

Jwt(claims, sig) == [t |-> "jwt", claims |-> claims, sig |-> sig]
Malformed        == Str("not.a-jwt")

\* jwt.sign(payload, secret, { expiresIn })
JwtSign(payload, secret, expiresIn, clock) ==
    IF Falsy(secret)
    THEN Throw("secretOrPrivateKey must have a value")
    ELSE IF "exp" \in DOMAIN payload.v
    THEN Throw("Bad options.expiresIn: the payload already has an exp property")
    ELSE IF Timespan(expiresIn) < 0
    THEN Throw("expiresIn should be a number of seconds or a timespan string")
    ELSE LET claims == Spread(payload, Obj([iat |-> Num(clock),
                                           exp |-> Num(clock + Timespan(expiresIn))]))
         IN  Return(Jwt(claims, Mac(secret.v, claims)))

\* jwt.verify(token, secret)
JwtVerify(token, secret, clock) ==
    IF token.t # "jwt"
    THEN Throw("jwt malformed")
    ELSE IF Falsy(secret)
    THEN Throw("secret or public key must be provided")
    ELSE IF token.sig # Mac(secret.v, token.claims)
    THEN Throw("invalid signature")
    ELSE IF "exp" \in DOMAIN token.claims.v /\ clock >= token.claims.v.exp.v
    THEN Throw("jwt expired")
    ELSE Return(token.claims)

\* generateAccessToken signing with the refresh token's expiry
generateAccessToken_usesRefreshExpiry(payload, clock) ==
    JwtSign(payload, mod.JWT_SECRET, mod.REFRESH_TOKEN_EXPIRES_IN, clock)

generateAccessToken(payload, clock) ==
    JwtSign(payload, mod.JWT_SECRET, mod.ACCESS_TOKEN_EXPIRES_IN, clock)

generateRefreshToken(payload, clock) ==
    JwtSign(payload, mod.JWT_REFRESH_SECRET, mod.REFRESH_TOKEN_EXPIRES_IN, clock)

\* verifyAccessToken without its try/catch
verifyAccessToken_noCatch(token, clock) ==
    JwtVerify(token, mod.JWT_SECRET, clock)

\* verifyAccessToken reading the claims without verifying the signature (jwt.decode)
verifyAccessToken_decodesOnly(token, clock) ==
    IF token.t = "jwt" THEN Return(token.claims) ELSE Return(NULL)

\* verifyRefreshToken checking against the access secret
verifyRefreshToken_usesAccessSecret(token, clock) ==
    LET r == JwtVerify(token, mod.JWT_SECRET, clock)
    IN  IF r.tag = "throw" THEN Return(NULL) ELSE r

\* try { return jwt.verify(...) } catch { return null }
verifyAccessToken(token, clock) ==
    LET r == JwtVerify(token, mod.JWT_SECRET, clock)
    IN  IF r.tag = "throw" THEN Return(NULL) ELSE r

verifyRefreshToken(token, clock) ==
    LET r == JwtVerify(token, mod.JWT_REFRESH_SECRET, clock)
    IN  IF r.tag = "throw" THEN Return(NULL) ELSE r

\* a module body that validates the secrets when it runs
LoadModule_validatesEagerly ==
    /\ mod.status = "unloaded"
    /\ mod' = IF Falsy(env.JWT_SECRET) \/ Falsy(env.JWT_REFRESH_SECRET)
              THEN [unloaded EXCEPT !.status = "failed"]
              ELSE [status |-> "loaded",
                    JWT_SECRET |-> env.JWT_SECRET,
                    JWT_REFRESH_SECRET |-> env.JWT_REFRESH_SECRET,
                    ACCESS_TOKEN_EXPIRES_IN |->
                        IF Falsy(env.JWT_EXPIRES_IN) THEN Str("15m")
                        ELSE env.JWT_EXPIRES_IN,
                    REFRESH_TOKEN_EXPIRES_IN |->
                        IF Falsy(env.JWT_REFRESH_EXPIRES_IN) THEN Str("7d")
                        ELSE env.JWT_REFRESH_EXPIRES_IN]
    /\ UNCHANGED <<state, queue, lastCall, env, now, ticks, pool, last, jar>>

\* the module bodies run: process.env is read into the module constants
LoadModule ==
    /\ mod.status = "unloaded"
    /\ mod' = [status |-> "loaded",
               JWT_SECRET |-> env.JWT_SECRET,
               JWT_REFRESH_SECRET |-> env.JWT_REFRESH_SECRET,
               ACCESS_TOKEN_EXPIRES_IN |->
                   IF Falsy(env.JWT_EXPIRES_IN) THEN Str("15m") ELSE env.JWT_EXPIRES_IN,
               REFRESH_TOKEN_EXPIRES_IN |->
                   IF Falsy(env.JWT_REFRESH_EXPIRES_IN) THEN Str("7d")
                   ELSE env.JWT_REFRESH_EXPIRES_IN]
    /\ UNCHANGED <<state, queue, lastCall, env, now, ticks, pool, last, jar>>

Tick ==
    \E d \in TickSteps :
        /\ ticks < MaxTicks
        /\ now' = now + d
        /\ ticks' = ticks + 1
        /\ last' = NoCall
        /\ UNCHANGED <<state, queue, lastCall, env, mod, pool, jar>>

\* the outcome of a generate call: the token, when one was made, is in hand
Issued(op, payload, out) ==
    /\ last' = [op |-> op, arg |-> payload, out |-> out, at |-> now]
    /\ pool' = IF out.tag = "return"
               THEN [tok |-> out.val, by |-> op, payload |-> payload, at |-> now]
               ELSE pool
    /\ UNCHANGED <<state, queue, lastCall, env, mod, now, ticks, jar>>

GenerateAccessToken ==
    \E payload \in Payloads :
        /\ mod.status = "loaded"
        /\ Issued("generateAccessToken", payload, generateAccessToken(payload, now))

GenerateRefreshToken ==
    \E payload \in Payloads :
        /\ mod.status = "loaded"
        /\ Issued("generateRefreshToken", payload, generateRefreshToken(payload, now))

\* a token string made elsewhere reaches the service: not a JWT at all, or a
\* JWT signed with some secret, expiring or not
ForeignTokens ==
    {Malformed}
        \cup { Jwt(c, Mac(k, c)) :
                 k \in ForeignSecrets,
                 c \in {Obj([sub |-> Str("u1")]),
                        Obj([sub |-> Str("u1"), exp |-> Num(now + 2)])} }

Receive ==
    \E tok \in ForeignTokens :
        /\ pool' = [tok |-> tok, by |-> "foreign", payload |-> Undefined, at |-> now]
        /\ last' = NoCall
        /\ UNCHANGED <<state, queue, lastCall, env, mod, now, ticks, jar>>

\* the claims of the token in hand are rewritten, its signature kept
Tamper ==
    /\ pool.tok.t = "jwt"
    /\ pool.by # "tampered"
    /\ pool' = [tok |-> Jwt(Spread(pool.tok.claims, Obj([sub |-> Str("admin")])),
                            pool.tok.sig),
                by |-> "tampered", payload |-> Undefined, at |-> pool.at]
    /\ last' = NoCall
    /\ UNCHANGED <<state, queue, lastCall, env, mod, now, ticks, jar>>

VerifyAccessToken ==
    /\ mod.status = "loaded"
    /\ pool.tok # Undefined
    /\ last' = [op |-> "verifyAccessToken", arg |-> pool,
                out |-> verifyAccessToken(pool.tok, now), at |-> now]
    /\ UNCHANGED <<state, queue, lastCall, env, mod, now, ticks, pool, jar>>

VerifyRefreshToken ==
    /\ mod.status = "loaded"
    /\ pool.tok # Undefined
    /\ last' = [op |-> "verifyRefreshToken", arg |-> pool,
                out |-> verifyRefreshToken(pool.tok, now), at |-> now]
    /\ UNCHANGED <<state, queue, lastCall, env, mod, now, ticks, pool, jar>>

\* process.env as the deployment sets it, before any module is loaded
TokenInit ==
    /\ state = initialState
    /\ queue = <<>>
    /\ lastCall = NoCall
    /\ env \in { [noEnv EXCEPT !.JWT_SECRET = s, !.JWT_REFRESH_SECRET = r,
                               !.JWT_EXPIRES_IN = e[1], !.JWT_REFRESH_EXPIRES_IN = e[2]] :
                    s \in {Undefined} \cup {Str(k) : k \in Secrets},
                    r \in {Undefined} \cup {Str(k) : k \in Secrets},
                    e \in ExpiryConfigs }
    /\ mod = unloaded
    /\ now = 0
    /\ ticks = 0
    /\ pool = noToken
    /\ last = NoCall
    /\ jar = noCookies

TokenNext ==
    \/ LoadModule
    \/ Tick
    \/ GenerateAccessToken
    \/ GenerateRefreshToken
    \/ Receive
    \/ Tamper
    \/ VerifyAccessToken
    \/ VerifyRefreshToken

TokenSpec == TokenInit /\ [][TokenNext]_vars

------------------------------------------------------------------------------
(* lib/auth.ts: the cookie helpers, on one request's cookie store *)

CookieValues == {"", "tokA", "tokB"}
NodeEnvs     == {Undefined, Str("production"), Str("development")}

\* a cookie the request arrived with: a value and no attributes
Incoming(v) == [value |-> v, options |-> Undefined]

\* cookieStore.set(name, value, options)
CookieSet(j, name, value, options) ==
    [k \in DOMAIN j \cup {name} |->
        IF k = name THEN [value |-> value, options |-> options] ELSE j[k]]

\* cookieStore.delete(name): the store of a request that may write cookies
\* records the deletion as the cookie it will send to the browser, an empty
\* value that expired at the epoch: set({ name, value: '', expires: new Date(0) })
CookieDelete(j, name) == CookieSet(j, name, "", [expires |-> 0])

\* cookieStore.get(name)?.value
CookieGetValue(j, name) == IF name \in DOMAIN j THEN Str(j[name].value) ELSE Undefined

authCookieOptions(maxAge) ==
    [httpOnly |-> TRUE,
     secure |-> (env.NODE_ENV = Str("production")),
     sameSite |-> "lax",
     maxAge |-> maxAge]

\* the token lifetimes the process may be configured with
CookieExpiryConfigs == {<<Undefined, Undefined>>, <<Str("2s"), Str("3s")>>}

\* setAuthCookies taking the cookie lifetimes from JWT_CONFIG
setAuthCookies_maxAgeFollowsExpiry(j, accessToken, refreshToken) ==
    LET access  == IF Falsy(env.JWT_EXPIRES_IN) THEN Str("15m") ELSE env.JWT_EXPIRES_IN
        refresh == IF Falsy(env.JWT_REFRESH_EXPIRES_IN) THEN Str("7d")
                   ELSE env.JWT_REFRESH_EXPIRES_IN
    IN  CookieSet(CookieSet(j, "access_token", accessToken,
                            authCookieOptions(Timespan(access))),
                  "refresh_token", refreshToken, authCookieOptions(Timespan(refresh)))

\* clearAuthCookies deleting the access cookie only
clearAuthCookies_keepsRefresh(j) == CookieDelete(j, "access_token")

setAuthCookies(j, accessToken, refreshToken) ==
    CookieSet(CookieSet(j, "access_token", accessToken, authCookieOptions(15 * 60)),
              "refresh_token", refreshToken, authCookieOptions(7 * 24 * 60 * 60))

clearAuthCookies(j) == CookieDelete(CookieDelete(j, "access_token"), "refresh_token")

getAccessToken(j)  == CookieGetValue(j, "access_token")
getRefreshToken(j) == CookieGetValue(j, "refresh_token")

SetAuthCookies ==
    \E a \in CookieValues, r \in CookieValues :
        /\ jar' = setAuthCookies(jar, a, r)
        /\ lastCall' = [op |-> "setAuthCookies", args |-> <<a, r>>]
        /\ last' = NoCall
        /\ UNCHANGED <<state, queue, env, mod, now, ticks, pool>>

ClearAuthCookies ==
    /\ jar' = clearAuthCookies(jar)
    /\ lastCall' = [op |-> "clearAuthCookies", args |-> <<>>]
    /\ last' = NoCall
    /\ UNCHANGED <<state, queue, env, mod, now, ticks, pool>>

GetAccessToken ==
    /\ last' = [op |-> "getAccessToken", arg |-> <<>>, out |-> Return(getAccessToken(jar))]
    /\ UNCHANGED <<state, queue, lastCall, env, mod, now, ticks, pool, jar>>

GetRefreshToken ==
    /\ last' = [op |-> "getRefreshToken", arg |-> <<>>, out |-> Return(getRefreshToken(jar))]
    /\ UNCHANGED <<state, queue, lastCall, env, mod, now, ticks, pool, jar>>

\* the cookies a request can arrive with
RequestCookies ==
    UNION { [names -> {Incoming(v) : v \in CookieValues}] :
              names \in SUBSET {"access_token", "refresh_token", "theme"} }

CookieInit ==
    /\ state = initialState
    /\ queue = <<>>
    /\ lastCall = NoCall
    /\ env \in { [noEnv EXCEPT !.NODE_ENV = n,
                               !.JWT_EXPIRES_IN = e[1], !.JWT_REFRESH_EXPIRES_IN = e[2]] :
                    n \in NodeEnvs, e \in CookieExpiryConfigs }
    /\ mod = unloaded
    /\ now = 0
    /\ ticks = 0
    /\ pool = noToken
    /\ last = NoCall
    /\ jar \in RequestCookies

CookieNext ==
    \/ SetAuthCookies
    \/ ClearAuthCookies
    \/ GetAccessToken
    \/ GetRefreshToken

CookieSpec == CookieInit /\ [][CookieNext]_vars

------------------------------------------------------------------------------
(* The provider in a browser whose cookie store the server helpers write *)

\* useReducer(authReducer, initialState): the provider reads no cookie at mount
Mount(j) == initialState

\* the cookies the browser holds when the provider mounts
MountCookies ==
    {noCookies,
     [n \in {"access_token", "refresh_token"} |->
         Incoming(IF n = "access_token" THEN "tokA" ELSE "tokB")]}

AppInit ==
    /\ jar \in MountCookies
    /\ state = Mount(jar)
    /\ queue = <<>>
    /\ lastCall = NoCall
    /\ env = noEnv
    /\ mod = unloaded
    /\ now = 0
    /\ ticks = 0
    /\ pool = noToken
    /\ last = NoCall

\* the provider's operations and the helpers that write the cookie store
AppNext ==
    \/ Next
    \/ SetAuthCookies
    \/ ClearAuthCookies

AppSpec == AppInit /\ [][AppNext]_vars

------------------------------------------------------------------------------
(* lib/auth.ts: password hashing (bcryptjs) *)

SaltRounds == 12

\* 16 random bytes per bcrypt.hash call
Salts == {"saltA", "saltB"}

\* a password of 73 bytes: 72 times 'a', then byte c
LongPassword(c) == [i \in 1..73 |-> IF i = 73 THEN c ELSE 97]

\* password strings, as their UTF-8 bytes
PasswordStrings == {<<>>, <<97>>, <<98>>, LongPassword(49), LongPassword(50)}

\* bcrypt keys the cipher with the first 72 bytes of the password
BcryptKey(password) ==
    IF Len(password) > 72 THEN SubSeq(password, 1, 72) ELSE password

\* the digest as an ideal hash of salt, cost and key
BcryptDigest(password, salt, cost) ==
    [salt |-> salt, cost |-> cost, key |-> BcryptKey(password)]

\* the 60-character string "$2a$<cost>$<salt><digest>"
BcryptString(salt, cost, digest) ==
    [len |-> 60, version |-> "2a", cost |-> cost, salt |-> salt, digest |-> digest]

\* strings that are no bcrypt hash: too short, or 60 characters of something else
ShortString  == [len |-> 5, version |-> "none"]
SixtyGarbage == [len |-> 60, version |-> "none"]

\* bcrypt.hash(password, rounds), with the salt it drew
BcryptHash(password, rounds, salt) ==
    Return(BcryptString(salt, rounds, BcryptDigest(password, salt, rounds)))

\* bcrypt.compare(password, hash): false for a string that is not 60
\* characters long, an error for 60 characters that carry no "$2" version,
\* else the digest recomputed with the hash's own salt and cost
BcryptCompare(password, hash) ==
    IF hash.len # 60
    THEN Return(FALSE)
    ELSE IF hash.version \notin {"2a", "2b", "2y"}
    THEN Throw("Invalid salt version")
    ELSE Return(BcryptString(hash.salt, hash.cost,
                             BcryptDigest(password, hash.salt, hash.cost)) = hash)

\* hashPassword with another cost factor
hashPassword_cost10(password, salt) == BcryptHash(password, 10, salt)

hashPassword(password, salt) == BcryptHash(password, SaltRounds, salt)

verifyPassword(password, hashedPassword) == BcryptCompare(password, hashedPassword)

\* the hash comes to be the stored one; the call remembers the one stored before
HashPassword ==
    \E password \in PasswordStrings, salt \in Salts :
        LET out == hashPassword(password, salt)
        IN  /\ last' = [op |-> "hashPassword", arg |-> password, out |-> out,
                        before |-> pool]
            /\ pool' = [tok |-> out.val, by |-> "hashPassword", payload |-> password,
                        at |-> 0]
            /\ UNCHANGED <<state, queue, lastCall, env, mod, now, ticks, jar>>

\* a hash column can hold anything: strings that are no hash, hashes made elsewhere
StoredElsewhere ==
    {ShortString, SixtyGarbage, BcryptString("saltC", 10, BcryptDigest(<<97>>, "saltC", 10))}

LoadStoredHash ==
    \E h \in StoredElsewhere :
        /\ pool' = [tok |-> h, by |-> "elsewhere", payload |-> Undefined, at |-> 0]
        /\ last' = NoCall
        /\ UNCHANGED <<state, queue, lastCall, env, mod, now, ticks, jar>>

VerifyPassword ==
    \E password \in PasswordStrings :
        /\ pool.tok # Undefined
        /\ last' = [op |-> "verifyPassword", arg |-> <<password, pool>>,
                    out |-> verifyPassword(password, pool.tok)]
        /\ UNCHANGED <<state, queue, lastCall, env, mod, now, ticks, pool, jar>>

HashNext ==
    \/ HashPassword
    \/ LoadStoredHash
    \/ VerifyPassword

HashSpec == Init /\ [][HashNext]_vars

------------------------------------------------------------------------------
(* app/api/health/route.ts *)

\* a thrown Error object, and what instanceof Error says of a thrown value
ErrorObj(message) == [t |-> "Error", message |-> message]
IsError(e) == e.t = "Error"

\* outcomes of `await db.execute(sql`SELECT 1`)`: rows, or a rejection with
\* an Error or with another value
ProbeOutcomes ==
    {Return(<<1>>),
     Throw(ErrorObj("ECONNREFUSED")),
     Throw(ErrorObj("")),
     Throw(Str("timeout")),
     Throw(Undefined)}

\* NextResponse.json(body, init): the status defaults to 200
JsonResponse(body, status) == [status |-> status, body |-> body]

\* GET answering 200 on the catch path
GET_forgetsStatus(probe, clock) ==
    IF probe.tag = "return"
    THEN Return(JsonResponse(
             [status |-> "healthy",
              timestamp |-> clock,
              environment |-> env.NODE_ENV,
              version |-> IF Falsy(env.npm_package_version) THEN Str("unknown")
                          ELSE env.npm_package_version],
             200))
    ELSE Return(JsonResponse(
             [status |-> "unhealthy",
              error |-> IF IsError(probe.err) THEN probe.err.message
                        ELSE "Unknown error",
              timestamp |-> clock,
              environment |-> env.NODE_ENV],
             200))

GET(probe, clock) ==
    IF probe.tag = "return"
    THEN Return(JsonResponse(
             [status |-> "healthy",
              timestamp |-> clock,
              environment |-> env.NODE_ENV,
              version |-> IF Falsy(env.npm_package_version) THEN Str("unknown")
                          ELSE env.npm_package_version],
             200))
    ELSE Return(JsonResponse(
             [status |-> "unhealthy",
              error |-> IF IsError(probe.err) THEN probe.err.message
                        ELSE "Unknown error",
              timestamp |-> clock,
              environment |-> env.NODE_ENV],
             503))

Get ==
    \E probe \in ProbeOutcomes :
        /\ last' = [op |-> "GET", arg |-> probe, out |-> GET(probe, now), at |-> now]
        /\ UNCHANGED <<state, queue, lastCall, env, mod, now, ticks, pool, jar>>

HealthInit ==
    /\ state = initialState
    /\ queue = <<>>
    /\ lastCall = NoCall
    /\ env \in { [noEnv EXCEPT !.NODE_ENV = n, !.npm_package_version = v] :
                    n \in NodeEnvs, v \in {Undefined, Str(""), Str("0.1.0")} }
    /\ mod = unloaded
    /\ now = 0
    /\ ticks = 0
    /\ pool = noToken
    /\ last = NoCall
    /\ jar = noCookies

HealthNext ==
    \/ Tick
    \/ Get

HealthSpec == HealthInit /\ [][HealthNext]_vars

------------------------------------------------------------------------------
(* middleware.ts *)

\* strings the middleware compares by prefix, as sequences of characters
Chars(w) ==
    CASE w = "/"       -> <<"/">>
      [] w = "/api"    -> <<"/", "a", "p", "i">>
      [] w = "/api/"   -> <<"/", "a", "p", "i", "/">>
      [] w = "/api/x"  -> <<"/", "a", "p", "i", "/", "x">>
      [] w = "/d"      -> <<"/", "d">>
      [] w = "/dx"     -> <<"/", "d", "x">>
      [] w = "/l"      -> <<"/", "l">>

\* String.prototype.startsWith
StartsWith(str, prefix) ==
    /\ Len(prefix) <= Len(str)
    /\ SubSeq(str, 1, Len(prefix)) = prefix

Pathnames == {Chars(w) : w \in {"/", "/api", "/api/", "/api/x", "/d", "/dx", "/l"}}

\* the route lists as shipped
protectedRoutes == {}
authRoutes == {}

\* route lists a project fills in
RouteLists == {{}, {Chars("/d")}, {Chars("/l")}, {Chars("/api")}, {Chars("/d"), Chars("/l")}}

\* NextResponse.redirect(new URL(path, request.url)), NextResponse.next()
Redirect(path, searchParams) ==
    [kind |-> "redirect", location |-> path, searchParams |-> searchParams,
     headers |-> [h \in {} |-> ""]]
NextResponseNext(headers) == [kind |-> "next", headers |-> headers]

SecurityHeaders ==
    [h \in {"X-Content-Type-Options", "X-Frame-Options", "X-XSS-Protection"} |->
        CASE h = "X-Content-Type-Options" -> "nosniff"
          [] h = "X-Frame-Options"        -> "DENY"
          [] h = "X-XSS-Protection"       -> "1; mode=block"]

\* the middleware testing that the cookie exists, not that it has a value
middlewareBody_testsCookieExists(protected, auth, pathname, cookies) ==
    LET isProtectedRoute == \E route \in protected : StartsWith(pathname, route)
        isAuthRoute      == \E route \in auth : StartsWith(pathname, route)
        hasToken         == "access_token" \in DOMAIN cookies
    IN  IF isProtectedRoute /\ ~hasToken
        THEN Redirect("/login", [redirect |-> pathname])
        ELSE IF isAuthRoute /\ hasToken
        THEN Redirect("/dashboard", [k \in {} |-> <<>>])
        ELSE IF StartsWith(pathname, Chars("/api/"))
        THEN NextResponseNext(SecurityHeaders)
        ELSE NextResponseNext([h \in {} |-> ""])

\* the middleware setting the security headers before the redirect checks
middlewareBody_headersFirst(protected, auth, pathname, cookies) ==
    LET isProtectedRoute == \E route \in protected : StartsWith(pathname, route)
        isAuthRoute      == \E route \in auth : StartsWith(pathname, route)
        accessToken      == CookieGetValue(cookies, "access_token")
    IN  IF StartsWith(pathname, Chars("/api/"))
        THEN NextResponseNext(SecurityHeaders)
        ELSE IF isProtectedRoute /\ Falsy(accessToken)
        THEN Redirect("/login", [redirect |-> pathname])
        ELSE IF isAuthRoute /\ ~Falsy(accessToken)
        THEN Redirect("/dashboard", [k \in {} |-> <<>>])
        ELSE NextResponseNext([h \in {} |-> ""])

\* the body of middleware(request), for given route lists
middlewareBody(protected, auth, pathname, cookies) ==
    LET isProtectedRoute == \E route \in protected : StartsWith(pathname, route)
        isAuthRoute      == \E route \in auth : StartsWith(pathname, route)
        accessToken      == CookieGetValue(cookies, "access_token")
    IN  IF isProtectedRoute /\ Falsy(accessToken)
        THEN Redirect("/login", [redirect |-> pathname])
        ELSE IF isAuthRoute /\ ~Falsy(accessToken)
        THEN Redirect("/dashboard", [k \in {} |-> <<>>])
        ELSE IF StartsWith(pathname, Chars("/api/"))
        THEN NextResponseNext(SecurityHeaders)
        ELSE NextResponseNext([h \in {} |-> ""])

middleware(pathname, cookies) ==
    middlewareBody(protectedRoutes, authRoutes, pathname, cookies)

\* a request through the middleware as shipped
Middleware ==
    \E pathname \in Pathnames :
        /\ last' = [op |-> "middleware",
                    arg |-> [protected |-> protectedRoutes, auth |-> authRoutes,
                             pathname |-> pathname, cookies |-> jar],
                    out |-> middleware(pathname, jar)]
        /\ UNCHANGED <<state, queue, lastCall, env, mod, now, ticks, pool, jar>>

\* a request through the middleware of a project that has filled in its routes
MiddlewareWithRoutes ==
    \E pathname \in Pathnames, protected \in RouteLists, auth \in RouteLists :
        /\ last' = [op |-> "middleware",
                    arg |-> [protected |-> protected, auth |-> auth,
                             pathname |-> pathname, cookies |-> jar],
                    out |-> middlewareBody(protected, auth, pathname, jar)]
        /\ UNCHANGED <<state, queue, lastCall, env, mod, now, ticks, pool, jar>>

\* the cookies of the request: none, an empty access_token, a non-empty one
MiddlewareCookies ==
    {noCookies} \cup
    { [n \in {"access_token"} |-> Incoming(v)] : v \in {"", "tokA"} }

MiddlewareInit ==
    /\ state = initialState
    /\ queue = <<>>
    /\ lastCall = NoCall
    /\ env = noEnv
    /\ mod = unloaded
    /\ now = 0
    /\ ticks = 0
    /\ pool = noToken
    /\ last = NoCall
    /\ jar \in MiddlewareCookies

MiddlewareNext ==
    \/ Middleware
    \/ MiddlewareWithRoutes

MiddlewareSpec == MiddlewareInit /\ [][MiddlewareNext]_vars

------------------------------------------------------------------------------
(* Claims: the token service *)

\* a read follows a setAuthCookies(a, r): it returns what was written
ReadsBackWhatWasSet ==
    /\ (last.op = "getAccessToken" /\ lastCall.op = "setAuthCookies")
          => last.out = Return(Str(lastCall.args[1]))
    /\ (last.op = "getRefreshToken" /\ lastCall.op = "setAuthCookies")
          => last.out = Return(Str(lastCall.args[2]))

ReadAfterClear ==
    /\ last.op \in {"getAccessToken", "getRefreshToken"}
    /\ lastCall.op = "clearAuthCookies"

\* C4 as stated: on one request's cookie store, after setAuthCookies(a, r)
\* getAccessToken() returns a and getRefreshToken() returns r, for all strings
\* a and r and whatever the store held before; after clearAuthCookies() both
\* return undefined, whatever set/clear calls preceded it.
C4_CookiesReadBackWhatWasWritten ==
    /\ ReadsBackWhatWasSet
    /\ ReadAfterClear => last.out = Return(Undefined)

\* C4 as amended: after setAuthCookies(a, r) the two reads return a and r;
\* after clearAuthCookies() both return no token: undefined or the empty
\* string, never a value the store held or was given before.
C4_CookiesReadBackOrReadNoToken ==
    /\ ReadsBackWhatWasSet
    /\ ReadAfterClear => (last.out.tag = "return" /\ Falsy(last.out.val))

\* the refresh token is read after a clear, on a store that holds another cookie
C4_Witness ==
    /\ ReadAfterClear
    /\ last.op = "getRefreshToken"
    /\ Falsy(last.out.val)
    /\ "theme" \in DOMAIN jar

\* the token in hand was issued by generateAccessToken, and is being verified
AccessRoundTrip ==
    /\ last.op = "verifyAccessToken"
    /\ last.arg.by = "generateAccessToken"

AccessExpiry == last.arg.at + Timespan(mod.ACCESS_TOKEN_EXPIRES_IN)

C6_WrongSecretReturnsNull ==
    (/\ last.op = "verifyAccessToken"
     /\ last.arg.tok.t = "jwt"
     /\ Str(last.arg.tok.sig.key) # mod.JWT_SECRET)
        => last.out = Return(NULL)

\* an unexpiring, untampered token signed with a secret that is not JWT_SECRET
C6_Witness ==
    /\ last.op = "verifyAccessToken"
    /\ last.arg.by = "foreign"
    /\ last.arg.tok.t = "jwt"
    /\ last.arg.tok.sig.key = "s3"
    /\ "exp" \notin DOMAIN last.arg.tok.claims.v
    /\ mod.JWT_SECRET = Str("s1")
    /\ last.out = Return(NULL)

SecretOf(op) ==
    IF op = "verifyAccessToken" THEN mod.JWT_SECRET ELSE mod.JWT_REFRESH_SECRET

\* C7: verifyAccessToken and verifyRefreshToken never let an exception
\* escape: for every input string (malformed, expired, tampered) that fails
\* verification they return null, the same null whatever the failure was.
C7_VerifyFailuresReturnNull ==
    last.op \in {"verifyAccessToken", "verifyRefreshToken"} =>
        /\ last.out.tag = "return"
        /\ JwtVerify(last.arg.tok, SecretOf(last.op), last.at).tag = "throw"
              => last.out = Return(NULL)

\* a malformed string has been verified
C7_Witness ==
    /\ last.op = "verifyAccessToken"
    /\ last.arg.tok = Malformed
    /\ mod.JWT_SECRET # Undefined
    /\ last.out = Return(NULL)

\* C8: when JWT_SECRET (resp. JWT_REFRESH_SECRET) is absent from the
\* environment, loading the module succeeds and generateAccessToken (resp.
\* generateRefreshToken) throws when it is called; nothing fails earlier.
C8_MissingSecretThrowsAtSigning ==
    /\ mod.status \in {"unloaded", "loaded"}
    /\ mod.status = "unloaded" => ENABLED LoadModule
    /\ (last.op = "generateAccessToken" /\ env.JWT_SECRET = Undefined)
          => last.out = Throw("secretOrPrivateKey must have a value")
    /\ (last.op = "generateRefreshToken" /\ env.JWT_REFRESH_SECRET = Undefined)
          => last.out = Throw("secretOrPrivateKey must have a value")

\* the module is loaded without JWT_SECRET and generateAccessToken has thrown
C8_Witness ==
    /\ env.JWT_SECRET = Undefined
    /\ mod.status = "loaded"
    /\ last.op = "generateAccessToken"
    /\ last.out.tag = "throw"

\* C9: when the secret is absent, a verification call surfaces the
\* configuration error as fatal to that call, as a signing call does, and not
\* as an ordinary verification failure.
C9_VerifyReportsMissingSecret ==
    (last.op \in {"verifyAccessToken", "verifyRefreshToken"}
        /\ SecretOf(last.op) = Undefined)
        => last.out.tag = "throw"

\* C10: access and refresh tokens are verified against separate secrets: when
\* JWT_SECRET and JWT_REFRESH_SECRET differ, verifyRefreshToken of an access
\* token and verifyAccessToken of a refresh token return null, for every payload.
C10_SeparateSecrets ==
    mod.JWT_SECRET # mod.JWT_REFRESH_SECRET =>
        /\ (last.op = "verifyRefreshToken" /\ last.arg.by = "generateAccessToken")
              => last.out = Return(NULL)
        /\ (last.op = "verifyAccessToken" /\ last.arg.by = "generateRefreshToken")
              => last.out = Return(NULL)

\* both secrets are set and differ, and an unexpired access token is refused
\* by verifyRefreshToken
C10_Witness ==
    /\ mod.JWT_SECRET = Str("s1")
    /\ mod.JWT_REFRESH_SECRET = Str("s2")
    /\ last.op = "verifyRefreshToken"
    /\ last.arg.by = "generateAccessToken"
    /\ last.at = last.arg.at
    /\ last.out = Return(NULL)

\* the attributes the claim states for a cookie of the given lifetime
StatedOptions(maxAge) ==
    [httpOnly |-> TRUE, secure |-> (env.NODE_ENV = Str("production")),
     sameSite |-> "lax", maxAge |-> maxAge]

\* C14: every cookie written by setAuthCookies is named access_token or
\* refresh_token and carries httpOnly true, sameSite "lax", secure equal to
\* (NODE_ENV = "production"), and maxAge 900 (access) or 604800 (refresh);
\* the maxAge values are fixed and do not follow JWT_EXPIRES_IN or
\* JWT_REFRESH_EXPIRES_IN.
C14_AuthCookieAttributes ==
    /\ [](lastCall.op = "setAuthCookies" =>
            /\ jar["access_token"] =
                   [value |-> lastCall.args[1], options |-> StatedOptions(900)]
            /\ jar["refresh_token"] =
                   [value |-> lastCall.args[2], options |-> StatedOptions(604800)])
    /\ [][SetAuthCookies =>
            /\ DOMAIN jar' = DOMAIN jar \cup {"access_token", "refresh_token"}
            /\ \A name \in DOMAIN jar \ {"access_token", "refresh_token"} :
                   jar'[name] = jar[name]]_vars

\* cookies set in production with the token lifetimes configured to seconds
C14_Witness ==
    /\ lastCall.op = "setAuthCookies"
    /\ env.NODE_ENV = Str("production")
    /\ env.JWT_EXPIRES_IN = Str("2s")
    /\ jar["access_token"].options.maxAge = 900
    /\ jar["refresh_token"].options.secure
    /\ "theme" \in DOMAIN jar

------------------------------------------------------------------------------
(* Claims: password hashing *)

\* verifyPassword is called on a hash that hashPassword returned
VerifiesOwnHash ==
    /\ last.op = "verifyPassword"
    /\ last.arg[2].by = "hashPassword"

\* C11: for every password p, verifyPassword(p, hashPassword(p)) is
\* true; for every pair of distinct passwords p1 and p2,
\* verifyPassword(p1, hashPassword(p2)) is false.
C11_VerifiesExactlyTheHashedPassword ==
    VerifiesOwnHash => last.out = Return(last.arg[1] = last.arg[2].payload)

\* C12: verifyPassword never throws: for every password string and every hash
\* string, including strings that are not well-formed hashes, it returns a
\* boolean, and returns false on mismatch.
C12_VerifyPasswordNeverThrows ==
    last.op = "verifyPassword" =>
        /\ last.out.tag = "return"
        /\ last.out.val \in BOOLEAN

\* two successive hashPassword calls on the same password
HashedTwice ==
    /\ last.op = "hashPassword"
    /\ last.before.by = "hashPassword"
    /\ last.before.payload = last.arg

\* C13 as stated: hashPassword is deterministic: two calls with the same
\* password string return the same hash, computed with cost factor 12.
C13_HashPasswordDeterministic ==
    HashedTwice =>
        /\ last.out.val = last.before.tok
        /\ last.out.val.cost = 12

\* C13 as amended: hashPassword is deterministic given the salt it draws: two
\* calls with the same password return the same hash when they drew the same
\* salt and different hashes otherwise, each computed with cost factor 12.
C13_HashPasswordDeterministicUpToSalt ==
    HashedTwice =>
        /\ last.out.val.cost = 12
        /\ last.before.tok.cost = 12
        /\ (last.out.val = last.before.tok) <=> (last.out.val.salt = last.before.tok.salt)

\* the same password was hashed twice and the hashes differ
C13_Witness ==
    /\ HashedTwice
    /\ last.arg = <<97>>
    /\ last.out.val # last.before.tok

------------------------------------------------------------------------------
(* Claims: the health endpoint *)

\* C21: the health endpoint GET never lets an error escape: it answers status
\* 'healthy' with HTTP 200 exactly when the database probe succeeds, and status
\* 'unhealthy' with HTTP 503 and an error message whenever the probe throws.
C21_HealthAnswersProbeOutcome ==
    last.op = "GET" =>
        /\ last.out.tag = "return"
        /\ (last.out.val.status = 200 /\ last.out.val.body.status = "healthy")
              <=> last.arg.tag = "return"
        /\ last.arg.tag = "throw" =>
              /\ last.out.val.status = 503
              /\ last.out.val.body.status = "unhealthy"
              /\ last.out.val.body.error =
                    (IF last.arg.err \in {ErrorObj("ECONNREFUSED"), ErrorObj("")}
                     THEN last.arg.err.message ELSE "Unknown error")

\* the probe rejected with a value that is no Error
C21_Witness ==
    /\ last.op = "GET"
    /\ last.arg = Throw(Str("timeout"))
    /\ last.out.val.status = 503
    /\ last.out.val.body.error = "Unknown error"
    /\ last.at > 0

------------------------------------------------------------------------------
(* Claims: the middleware *)

\* what the last middleware call was given
IsProtected == \E route \in last.arg.protected : StartsWith(last.arg.pathname, route)
IsAuth      == \E route \in last.arg.auth : StartsWith(last.arg.pathname, route)
CookiePresent == "access_token" \in DOMAIN last.arg.cookies
CookieAbsentOrEmpty ==
    ~CookiePresent \/ last.arg.cookies["access_token"].value = ""
ToLogin ==
    /\ last.out.kind = "redirect"
    /\ last.out.location = "/login"
    /\ last.out.searchParams = [redirect |-> last.arg.pathname]
ToDashboard ==
    /\ last.out.kind = "redirect"
    /\ last.out.location = "/dashboard"
Shipped == last.arg.protected = {} /\ last.arg.auth = {}

C29_ApiSecurityHeaders ==
    last.op = "middleware" =>
        LET api == StartsWith(last.arg.pathname, <<"/", "a", "p", "i", "/">>)
            redirected == (IsProtected /\ CookieAbsentOrEmpty)
                             \/ (IsAuth /\ ~CookieAbsentOrEmpty)
        IN  /\ redirected <=> last.out.kind = "redirect"
            /\ (api /\ ~redirected) =>
                  last.out.headers =
                      [h \in {"X-Content-Type-Options", "X-Frame-Options",
                              "X-XSS-Protection"} |->
                          IF h = "X-Content-Type-Options" THEN "nosniff"
                          ELSE IF h = "X-Frame-Options" THEN "DENY"
                          ELSE "1; mode=block"]
            /\ (redirected \/ ~api) => DOMAIN last.out.headers = {}

\* a request for /api/x without a cookie, with /api protected, has been redirected
C29_Witness ==
    /\ last.op = "middleware"
    /\ last.arg.pathname = Chars("/api/x")
    /\ last.arg.protected = {Chars("/api")}
    /\ ~CookiePresent
    /\ last.out.kind = "redirect"
    /\ DOMAIN last.out.headers = {}

------------------------------------------------------------------------------
(* Claims: the client auth state *)

\* C1: dispatching LOGOUT (and likewise CLEAR_AUTH) to authReducer from any
\* AuthState, whatever actions produced it, yields exactly the initial state
\* {user: null, isLoading: false, isAuthenticated: false, token: null}.
C1_LogoutYieldsInitialState ==
    (last.op = "authReducer" /\ last.arg[2].type \in {"LOGOUT", "CLEAR_AUTH"})
        => /\ state = initialState
           /\ state = [user |-> NULL, isLoading |-> FALSE,
                        isAuthenticated |-> FALSE, token |-> NULL]

\* LOGOUT has been reduced from a state with a user, a token and isLoading set
C1_Witness ==
    /\ last.op = "authReducer"
    /\ last.arg[2].type = "LOGOUT"
    /\ last.arg[1].user # NULL
    /\ last.arg[1].token # NULL
    /\ last.arg[1].isLoading
    /\ last.arg[1].isAuthenticated
    /\ state = initialState

\* C2: a freshly mounted provider has isAuthenticated = false, and after
\* login(email, password), for any email and password, the committed state
\* eventually has isAuthenticated = true and isLoading = false (as long as no
\* other operation is called after the login).
C2_LoginEventuallyAuthenticated ==
    /\ ~state.isAuthenticated
    /\ (lastCall.op = "login")
          ~> ((state.isAuthenticated /\ ~state.isLoading) \/ lastCall.op # "login")

\* login was the last call, its dispatches are reduced, the state is authenticated
C2_Witness ==
    /\ lastCall.op = "login"
    /\ lastCall.args = <<"a@b.com", "x">>
    /\ queue = <<>>
    /\ state.isAuthenticated
    /\ ~state.isLoading
    /\ state.token = mockToken

\* C3: in every AuthState reachable through login, register, logout,
\* updateUser and refreshUser, isAuthenticated is true iff user is non-null
\* and an access token is held (token is non-null).
C3_AuthenticatedIffUserAndToken ==
    state.isAuthenticated <=> (state.user # NULL /\ state.token # NULL)

\* C16: refreshUser leaves user, token and isAuthenticated unchanged: with a
\* null token it dispatches nothing, and with a token present the only field
\* it sets is isLoading, to true and then to false.
C16_RefreshUserOnlyTogglesLoading ==
    [][refreshUser =>
        /\ state' = state
        /\ Falsy(state.token) => queue' = queue
        /\ ~Falsy(state.token) =>
               queue' = queue \o <<SetLoading(TRUE), SetLoading(FALSE)>>
        /\ LET before == Reduce(state, queue)
               after  == Reduce(state, queue')
           IN  /\ after.user = before.user
               /\ after.token = before.token
               /\ after.isAuthenticated = before.isAuthenticated
               /\ ~Falsy(state.token) => ~after.isLoading]_vars

\* refreshUser has been called on a provider whose committed state holds a token
C16_Witness ==
    /\ lastCall.op = "refreshUser"
    /\ ~Falsy(state.token)
    /\ state.isAuthenticated
    /\ queue = <<SetLoading(TRUE), SetLoading(FALSE)>>

ActionTypes ==
    {"SET_LOADING", "SET_USER", "SET_TOKEN", "UPDATE_USER", "LOGOUT", "CLEAR_AUTH"}

\* C20: AuthState is created at mount as the initial state and changes only
\* through the actions SET_LOADING, SET_USER, SET_TOKEN, UPDATE_USER, LOGOUT and
\* CLEAR_AUTH; any other action returns the state unchanged.
C20_StateChangesOnlyThroughActions ==
    /\ state = initialState
    /\ [][/\ state' # state =>
               (last'.op = "authReducer" /\ last'.arg[2].type \in ActionTypes)
          /\ \A action \in Actions :
                action.type \notin ActionTypes => authReducer(state, action) = state]_vars

\* an action of another type has been reduced from a state that is not the initial one
C20_Witness ==
    /\ last.op = "authReducer"
    /\ last.arg[2].type = "UNKNOWN"
    /\ last.arg[1] # initialState
    /\ last.arg[1].isAuthenticated
    /\ state = last.arg[1]

\* C15: the cookie store and AuthState are independent: no AuthState
\* operation writes or deletes a cookie, no cookie helper changes AuthState,
\* and a provider mounted while auth cookies are present starts in the initial
\* state.
C15_CookiesAndAuthStateIndependent ==
    /\ state = initialState
    /\ [][/\ Next => jar' = jar
          /\ (SetAuthCookies \/ ClearAuthCookies) =>
                (state' = state /\ queue' = queue)]_vars

\* the provider was mounted with both cookies present and has logged in and
\* out again: the cookies are as they were and the state is the initial one
C15_Witness ==
    /\ lastCall.op = "logout"
    /\ queue = <<>>
    /\ state = initialState
    /\ getAccessToken(jar) = Str("tokA")
    /\ getRefreshToken(jar) = Str("tokB")

\* C19: cookie writes and client state updates are not atomic: a state is
\* reachable in which isAuthenticated is true while no access_token cookie is
\* stored, and one in which an access_token cookie is stored while
\* isAuthenticated is false; no step changes both isAuthenticated and the
\* cookie store.
C19_CookieAndStateNotAtomic ==
    [][/\ state'.isAuthenticated # state.isAuthenticated => jar' = jar
       /\ jar' # jar => (state' = state /\ queue' = queue)]_vars

\* the client is authenticated and the browser holds no access_token cookie
C19_Witness ==
    /\ state.isAuthenticated
    /\ state.token = mockToken
    /\ "access_token" \notin DOMAIN jar

\* an access_token cookie is stored and the client is not authenticated
C19_CookieWithoutAuthState ==
    /\ ~state.isAuthenticated
    /\ lastCall.op = "setAuthCookies"
    /\ getAccessToken(jar) = Str("tokA")

\* C22: login dispatches in the fixed order SET_LOADING(true), SET_TOKEN,
\* SET_USER with no condition on email or password: from any prior state the
\* call passes through a state with isLoading true and ends with token = the
\* placeholder token, user = the placeholder user, isAuthenticated = true and
\* isLoading = false.
C22_LoginDispatchOrder ==
    [][login =>
        /\ queue' = queue \o <<[type |-> "SET_LOADING", payload |-> TRUE],
                                [type |-> "SET_TOKEN", payload |-> Str("jwt-token")],
                                [type |-> "SET_USER", payload |-> EmptyObj]>>
        /\ LET prior == Reduce(state, queue)
               after == Reduce(state, queue')
           IN  /\ authReducer(prior, queue'[Len(queue) + 1]).isLoading
               /\ after = [user |-> EmptyObj, token |-> Str("jwt-token"),
                            isAuthenticated |-> TRUE, isLoading |-> FALSE]]_vars

\* login was called with a logout still queued, and nothing since
C22_Witness ==
    /\ lastCall.op = "login"
    /\ state.isAuthenticated
    /\ Len(queue) = 4
    /\ queue[1] = Logout
    /\ Reduce(state, queue).token = mockToken

\* C23: register sets isLoading and then unconditionally dispatches SET_USER:
\* from any prior state it ends with isAuthenticated = true and isLoading =
\* false, and it leaves token unchanged (so register on a fresh provider ends
\* authenticated with token null).
C23_RegisterKeepsToken ==
    [][register =>
        /\ queue' = queue \o <<[type |-> "SET_LOADING", payload |-> TRUE],
                                [type |-> "SET_USER", payload |-> EmptyObj]>>
        /\ LET prior == Reduce(state, queue)
               after == Reduce(state, queue')
           IN  /\ authReducer(prior, queue'[Len(queue) + 1]).isLoading
               /\ after.isAuthenticated
               /\ ~after.isLoading
               /\ after.token = prior.token]_vars

\* register on a fresh provider, rendered: authenticated with token null
C23_Witness ==
    /\ lastCall.op = "register"
    /\ queue = <<>>
    /\ state.isAuthenticated
    /\ ~state.isLoading
    /\ state.token = NULL

\* C25: in every AuthState reachable from the initial state by any sequence of
\* reducer actions, user is non-null if and only if isAuthenticated is true.
C25_UserIffAuthenticated ==
    (state.user # NULL) <=> state.isAuthenticated

\* UPDATE_USER has been reduced on an authenticated state, and LOGOUT before it
C25_Witness ==
    /\ last.op = "authReducer"
    /\ last.arg[2].type = "UPDATE_USER"
    /\ last.arg[1].user = EmptyObj
    /\ state.user # EmptyObj
    /\ state.user # NULL
    /\ state.isAuthenticated

\* C26: each of SET_LOADING, SET_TOKEN and UPDATE_USER changes only its own
\* field: SET_LOADING only isLoading, SET_TOKEN only token, UPDATE_USER only
\* user, and UPDATE_USER on a state whose user is null leaves user null.
C26_ActionsChangeOwnFieldOnly ==
    last.op = "authReducer" =>
        LET prev   == last.arg[1]
            action == last.arg[2]
        IN  /\ action.type = "SET_LOADING" =>
                  /\ state.isLoading = action.payload
                  /\ state.user = prev.user
                  /\ state.token = prev.token
                  /\ state.isAuthenticated = prev.isAuthenticated
            /\ action.type = "SET_TOKEN" =>
                  /\ state.token = action.payload
                  /\ state.user = prev.user
                  /\ state.isLoading = prev.isLoading
                  /\ state.isAuthenticated = prev.isAuthenticated
            /\ action.type = "UPDATE_USER" =>
                  /\ state.token = prev.token
                  /\ state.isLoading = prev.isLoading
                  /\ state.isAuthenticated = prev.isAuthenticated
                  /\ prev.user = NULL => state.user = NULL

\* UPDATE_USER with a name has been reduced on a state without a user
C26_Witness ==
    /\ last.op = "authReducer"
    /\ last.arg[2] = UpdateUser(Obj([name |-> Str("ann")]))
    /\ last.arg[1].user = NULL
    /\ last.arg[1].token # NULL
    /\ state = last.arg[1]

\* C27: isLoading never stays stuck: every login, register or refreshUser call
\* that set isLoading to true sets it back to false before it settles, so once
\* no call is pending isLoading is false.
C27_LoadingNeverStuck ==
    /\ ~state.isLoading
    /\ ~Reduce(state, queue).isLoading

\* two refreshUser calls have set isLoading and reset it, not yet rendered
C27_Witness ==
    /\ lastCall.op = "refreshUser"
    /\ Len(queue) = 4
    /\ queue[1] = SetLoading(TRUE)
    /\ queue[3] = SetLoading(TRUE)
    /\ ~Reduce(state, queue).isLoading

====
